---- MODULE Spec2Model ----
(***************************************************************************)
(* Model of src/lambda/app.py: the per-caller daily quota limiter          *)
(* (enforce_quota and the POST /analyze route of lambda_handler) and the   *)
(* text consolidation pipeline (_group_words_into_lines and the           *)
(* deduplication loop of _detect_text_lines_by_s3).                        *)
(*                                                                         *)
(* Specification Spec runs concurrent POST /analyze invocations against    *)
(* one quota table and one wall clock.  Specification SpecText runs the    *)
(* text pipeline on bounded lists of detections.                           *)
(*                                                                         *)
(* Geometry is kept in exact integer arithmetic: box coordinates are in    *)
(* hundredths of the image side, areas in 1e-4, and an IoU is the pair     *)
(* <<numerator, denominator>>.  Binary floating point rounding is not      *)
(* modelled.  The table's background removal of expired items is a         *)
(* setting of the table, not of app.py, and is not modelled: the handler   *)
(* only writes the expires attribute.                                      *)
(***************************************************************************)
EXTENDS Integers, Sequences, FiniteSets, Bags, TLC

VARIABLES
    BUCKET,                 \* os.environ.get("BUCKET_NAME")
    QUOTA_TABLE,            \* os.environ.get("QUOTA_TABLE")
    QUOTA_LIMIT,            \* int(os.environ.get("QUOTA_LIMIT", "3"))
    FEATURE_QUOTA_ENABLED,  \* the feature flag
    now,                    \* the wall clock, in ticks
    table,                  \* the quota table: key <<pk, sk>> -> [cnt, expires]
    req,                    \* the lambda invocations, a bag of records
    min_conf,               \* the min_conf argument of _detect_text_lines_by_s3
    dets,                   \* resp["TextDetections"] of one detect_text call
    tpc,                    \* position inside _detect_text_lines_by_s3
    words,                  \* the WORD detections handed to _group_words_into_lines
    lines,                  \* the candidate lines the dedup loop walks
    li,                     \* index of the next candidate of the dedup loop
    uniq                    \* the accumulator of the dedup loop

vars == <<BUCKET, QUOTA_TABLE, QUOTA_LIMIT, FEATURE_QUOTA_ENABLED, now, table, req,
          min_conf, dets, tpc, words, lines, li, uniq>>
envVars == <<BUCKET, QUOTA_TABLE, QUOTA_LIMIT, FEATURE_QUOTA_ENABLED>>
quotaVars == <<now, table, req>>
textVars == <<min_conf, dets, tpc, words, lines, li, uniq>>

(***************************************************************************)
(* Bounds of the model.                                                    *)
(***************************************************************************)
NumRequests == 3     \* lambda invocations
MaxLimit == 2        \* QUOTA_LIMIT ranges over 0..MaxLimit
MaxTime == 2         \* the clock stops ticking here
TicksPerDay == 2     \* clock ticks in one UTC day
MaxDets == 3         \* detections in one detect_text response

\* DEFAULT_MIN_CONFIDENCE
MIN_CONF == 55

Users == {"alice", "bob"}
None == "<None>"

(***************************************************************************)
(* Quota limiter                                                           *)
(***************************************************************************)
Max(a, b) == IF a >= b THEN a ELSE b
Min(a, b) == IF a <= b THEN a ELSE b

\* _today_utc_str: the UTC calendar day of a clock reading (the day's index).
TodayUtc(t) == t \div TicksPerDay

\* _next_midnight_epoch_utc: 00:00 UTC of the day after the clock reading.
NextMidnightEpochUtc(t) == (TodayUtc(t) + 1) * TicksPerDay

\* Key={"pk": "user#<user_id>", "sk": day}
QuotaKeyIgnoringDay(user_id, day) == <<user_id, 0>>
QuotaKey(user_id, day) == <<user_id, day>>

\* ConditionExpression="attribute_not_exists(cnt) OR cnt < :lim"
ConditionHolds(tbl, key, lim) == key \notin DOMAIN tbl \/ tbl[key].cnt < lim

\* if_not_exists(cnt, :z)
IfNotExistsCnt(tbl, key) == IF key \in DOMAIN tbl THEN tbl[key].cnt ELSE 0

\* UpdateExpression="SET cnt = if_not_exists(cnt, :z) + :one, expires = :ttl"
UpdatedItemResettingCnt(tbl, key, ttl) == [cnt |-> 1, expires |-> ttl]
UpdatedItem(tbl, key, ttl) == [cnt |-> IfNotExistsCnt(tbl, key) + 1, expires |-> ttl]

\* The table after the update of one item.
PutItem(tbl, key, item) ==
    [k \in DOMAIN tbl \cup {key} |-> IF k = key THEN item ELSE tbl[k]]

\* Header values: str(n), or the literal "disabled".
Num(n) == [t |-> "num", v |-> n]
Disabled == [t |-> "disabled", v |-> 0]
NoHeaders == [h \in {} |-> Disabled]

\* _resp(status, body, headers): only the status and the rate-limit headers are kept.
Resp(status, headers) == [status |-> status, headers |-> headers]

\* enforce_quota's except clause together with the handler's two except clauses:
\* a failed condition check becomes the 429 response carried by RuntimeError,
\* every other exception reaches the handler's last clause and becomes 500 "Fatal".
QuotaErrorResponseAlways429(code, lim) ==
    Resp(429, [h \in {"x-ratelimit-limit", "x-ratelimit-remaining"} |->
                 IF h = "x-ratelimit-limit" THEN Num(lim) ELSE Num(0)])
QuotaErrorResponse(code, lim) ==
    IF code = "ConditionalCheckFailedException"
    THEN Resp(429, [h \in {"x-ratelimit-limit", "x-ratelimit-remaining"} |->
                      IF h = "x-ratelimit-limit" THEN Num(lim) ELSE Num(0)])
    ELSE Resp(500, NoHeaders)

\* Lines 346-349 of lambda_handler: the rate-limit headers of a processed request.
WithRateHeaders(res, new_cnt, lim, enabled) ==
    [res EXCEPT !.headers =
        [h \in {"x-ratelimit-limit", "x-ratelimit-remaining"} |->
            IF ~enabled THEN Disabled
            ELSE IF h = "x-ratelimit-limit" THEN Num(lim)
            ELSE Num(Max(0, lim - new_cnt))]]

\* What the request body and the external services can be.
Payloads == {"ok", "no_content_base64", "invalid_base64", "bad_min_confidence"}
Services == {"ok", "s3_client_error", "rekognition_client_error", "rekognition_error"}

\* _process_analyze: the response for a payload and an outcome of the services.
\* "raise" stands for the exception float() throws outside the try block.
ProcessAnalyze(bucket, payload, svc) ==
    IF bucket = None THEN [kind |-> "return", status |-> 500, stored |-> FALSE]
    ELSE IF payload = "no_content_base64" THEN [kind |-> "return", status |-> 400, stored |-> FALSE]
    ELSE IF payload = "invalid_base64" THEN [kind |-> "return", status |-> 400, stored |-> FALSE]
    ELSE IF payload = "bad_min_confidence" THEN [kind |-> "raise", status |-> 500, stored |-> FALSE]
    ELSE IF svc = "s3_client_error" THEN [kind |-> "return", status |-> 502, stored |-> FALSE]
    ELSE IF svc = "rekognition_client_error" THEN [kind |-> "return", status |-> 502, stored |-> TRUE]
    ELSE IF svc = "rekognition_error" THEN [kind |-> "return", status |-> 500, stored |-> TRUE]
    ELSE [kind |-> "return", status |-> 200, stored |-> TRUE]

\* The record of an invocation that has just been routed to POST /analyze.
NewRequest(u) ==
    [pc |-> "start", user |-> u, day |-> 0, ttl |-> 0, qres |-> "none", new_cnt |-> 0,
     calls |-> 0, stored |-> FALSE, resp |-> Resp(0, NoHeaders)]

\* What _process_analyze can come to for the configured bucket, over every
\* request body and every outcome of the services.
Outcomes == {ProcessAnalyze(BUCKET, payload, svc) : payload \in Payloads, svc \in Services}

\* Lines 345-350 of lambda_handler: res = _process_analyze(data), then the rate-limit
\* headers; an exception that escapes _process_analyze ends in the handler's last
\* except clause, which answers 500 without them.
Processed(q, new_cnt, out) ==
    [q EXCEPT !.pc = "done", !.new_cnt = new_cnt, !.ttl = 0, !.stored = out.stored,
              !.resp = IF out.kind = "raise" THEN Resp(500, NoHeaders)
                       ELSE WithRateHeaders(Resp(out.status, NoHeaders), new_cnt,
                                            QUOTA_LIMIT, FEATURE_QUOTA_ENABLED)]

\* The invocations are a bag of records: two invocations in the same position
\* with the same data are not told apart.
Replace(B, old, new) == (B (-) SetToBag({old})) (+) SetToBag({new})
Invocations == BagToSet(req)

\* Module load (lines 16-23), an empty table, no invocation yet.
Init ==
    /\ BUCKET \in {"images", None}
    /\ QUOTA_TABLE \in {"quota", None}
    /\ QUOTA_LIMIT \in 0..MaxLimit
    /\ FEATURE_QUOTA_ENABLED \in BOOLEAN
    /\ now = 0
    /\ table = [k \in {} |-> [cnt |-> 0, expires |-> 0]]
    /\ req = EmptyBag
    /\ min_conf = MIN_CONF /\ dets = <<>> /\ tpc = "idle"
    /\ words = <<>> /\ lines = <<>> /\ li = 1 /\ uniq = <<>>

\* The wall clock advances.
Tick ==
    /\ now < MaxTime
    /\ now' = now + 1
    /\ UNCHANGED <<envVars, table, req, textVars>>

\* A POST /analyze arrives from caller u and enters enforce_quota.  Callers are
\* named in the order they first show up: "alice" is whoever calls first.  With the quota
\* switched off or no table configured enforce_quota returns 0 at once and the
\* handler goes on to process the request; otherwise the caller and the day are read.
EnforceQuotaBegin(u) ==
    /\ BagCardinality(req) < NumRequests
    /\ u = "alice" \/ \E q \in Invocations : q.user = "alice"
    /\ IF ~FEATURE_QUOTA_ENABLED \/ QUOTA_TABLE = None
       THEN \E out \in Outcomes :
              req' = req (+) SetToBag({Processed([NewRequest(u) EXCEPT !.qres = "skipped"],
                                                 0, out)})
       ELSE req' = req (+) SetToBag({[NewRequest(u) EXCEPT !.pc = "ttl",
                                                            !.day = TodayUtc(now)]})
    /\ UNCHANGED <<envVars, now, table, textVars>>

\* ttl = _next_midnight_epoch_utc(): a second reading of the clock.
EnforceQuotaTtl(q) ==
    /\ q.pc = "ttl"
    /\ req' = Replace(req, q, [q EXCEPT !.pc = "update", !.ttl = NextMidnightEpochUtc(now)])
    /\ UNCHANGED <<envVars, now, table, textVars>>

\* dynamo.update_item answers.  Either the conditional write is applied, the new
\* count comes back and the handler processes the request; or the condition check
\* fails and the handler returns the 429 response.
UpdateItem(q) ==
    /\ q.pc = "update"
    /\ LET key == QuotaKey(q.user, q.day)
       IN IF ConditionHolds(table, key, QUOTA_LIMIT)
          THEN /\ table' = PutItem(table, key, UpdatedItem(table, key, q.ttl))
               /\ \E out \in Outcomes :
                    req' = Replace(req, q, Processed([q EXCEPT !.qres = "ok", !.calls = @ + 1],
                                                     table'[key].cnt, out))
          ELSE /\ table' = table
               /\ req' = Replace(req, q,
                           [q EXCEPT !.pc = "done", !.qres = "exceeded", !.ttl = 0,
                                     !.calls = @ + 1,
                                     !.resp = QuotaErrorResponse(
                                         "ConditionalCheckFailedException", QUOTA_LIMIT)])
    /\ UNCHANGED <<envVars, now, textVars>>

\* dynamo.update_item raises something else (a ClientError with another code, a
\* transport exception): nothing is written and the exception leaves enforce_quota.
UpdateItemFault(q) ==
    /\ q.pc = "update"
    /\ \E resp \in {QuotaErrorResponse(code, QUOTA_LIMIT) :
                          code \in {"InternalServerError", "ReadTimeout"}} :
         req' = Replace(req, q, [q EXCEPT !.pc = "done", !.qres = "fault", !.ttl = 0,
                                          !.calls = @ + 1, !.resp = resp])
    /\ UNCHANGED <<envVars, now, table, textVars>>

Next ==
    \/ Tick
    \/ \E u \in Users : EnforceQuotaBegin(u)
    \/ \E q \in Invocations : EnforceQuotaTtl(q)
    \/ \E q \in Invocations : UpdateItem(q)
    \/ \E q \in Invocations : UpdateItemFault(q)

Spec == Init /\ [][Next]_vars

(***************************************************************************)
(* Properties of the quota limiter                                         *)
(***************************************************************************)
Days == 0..TodayUtc(MaxTime)
Keys == Users \X Days

\* How many invocations of the bag are in the set S of records.
Count(S) == BagCardinality([e \in S |-> req[e]])

\* The (subject, day) an invocation asked the limiter about.
KeyOf(q) == <<q.user, q.day>>
Cnt(key) == IF key \in DOMAIN table THEN table[key].cnt ELSE 0
QuotaOn == FEATURE_QUOTA_ENABLED /\ QUOTA_TABLE # None

\* The attempts on a key, and those the table answered with a given result.
Attempts(key) == {q \in Invocations : q.qres # "skipped" /\ KeyOf(q) = key}
Answered(key, res) == {q \in Attempts(key) : q.qres = res}
Settled(key) == \A q \in Attempts(key) : q.qres \in {"ok", "exceeded"}

\* C1: when N >= L attempts on one (subject, day) key have all been answered by
\* the table, exactly L of them succeeded, the other N-L failed with the
\* quota-exceeded response, the stored count is L, and no two successes saw the
\* same pre-increment count.
C1_QuotaExactness ==
    \A key \in Keys :
        (QuotaOn /\ Settled(key) /\ Count(Attempts(key)) >= QUOTA_LIMIT)
        => /\ Count(Answered(key, "ok")) = QUOTA_LIMIT
           /\ Count(Answered(key, "exceeded")) = Count(Attempts(key)) - QUOTA_LIMIT
           /\ \A q \in Answered(key, "exceeded") : q.resp.status = 429
           /\ Cnt(key) = QUOTA_LIMIT
           /\ \A p, q \in Answered(key, "ok") :
                 /\ p.new_cnt = q.new_cnt => p = q
                 /\ CopiesIn(p, req) = 1

\* C2: an attempt succeeds only if the count before it, 0 for a missing record,
\* is strictly below the limit, so that no stored count exceeds the limit.
C2_CountWithinLimit ==
    /\ \A q \in Invocations : q.qres = "ok" => q.new_cnt - 1 < QUOTA_LIMIT
    /\ \A key \in DOMAIN table : table[key].cnt <= QUOTA_LIMIT

\* The step is taken by invocation q, and p is the record it turns into.
Acts(q) == CopiesIn(q, req') < CopiesIn(q, req)
Arrives(p) == CopiesIn(p, req') > CopiesIn(p, req)
Item(tbl, key) == IF key \in DOMAIN tbl THEN <<tbl[key]>> ELSE <<>>

\* C3: a step changes the record of a (subject, day) key only when it is the
\* write of an attempt on that very key, and an attempt on a key with no record
\* succeeds with new count 1 whatever the records of the other keys are.
C3_KeysIndependent ==
    [][/\ \A key \in Keys :
             Item(table', key) # Item(table, key)
             => \E q \in Invocations : q.pc = "update" /\ KeyOf(q) = key /\ Acts(q)
       /\ \A q \in Invocations :
             (q.pc = "update" /\ KeyOf(q) \notin DOMAIN table /\ Acts(q))
             => \A p \in BagToSet(req') :
                   (Arrives(p) /\ p.qres # "fault")
                   => /\ p.qres = "ok" /\ p.new_cnt = 1
                      /\ Item(table', KeyOf(q)) = <<[cnt |-> 1, expires |-> q.ttl]>>
      ]_vars

\* C3 witness: a caller saturated on day 0 (limit 2) has count 1 on day 1.
C3_Witness ==
    \E u \in Users :
        /\ QUOTA_LIMIT = 2
        /\ Cnt(<<u, 0>>) = QUOTA_LIMIT
        /\ Cnt(<<u, 1>>) = 1
        /\ \E q \in Answered(<<u, 1>>, "ok") : q.new_cnt = 1

\* The header a response reports, as a set of values (empty when absent).
Reported(q, h) == {q.resp.headers[x].v : x \in {h} \cap DOMAIN q.resp.headers}

\* C4: with limit L, of the attempts answered on one key the k-th is accepted and
\* reports remaining L-k while k <= L, and every later one is rejected with
\* status 429, limit L and remaining 0.
C4_SequentialRemaining ==
    \A key \in Keys :
        (QuotaOn /\ Settled(key))
        => /\ Count(Answered(key, "ok")) = Min(Count(Attempts(key)), QUOTA_LIMIT)
           /\ \A q \in Answered(key, "ok") :
                 /\ q.new_cnt \in 1..QUOTA_LIMIT
                 /\ Reported(q, "x-ratelimit-remaining") \subseteq {QUOTA_LIMIT - q.new_cnt}
           /\ \A q \in Answered(key, "exceeded") :
                 /\ q.resp.status = 429
                 /\ Reported(q, "x-ratelimit-limit") = {QUOTA_LIMIT}
                 /\ Reported(q, "x-ratelimit-remaining") = {0}

\* C5: every stored record of day D expires at 00:00 UTC of day D+1.
C5_ExpiryIsMidnightAfterDay ==
    \A key \in DOMAIN table : table[key].expires = (key[2] + 1) * TicksPerDay

\* C6: a fault of the conditional write other than the failed condition check
\* ends the request with a 500 that is neither success nor quota-exceeded, with
\* nothing stored or analysed and a single call of the write.
C6_FaultIsServerError ==
    \A q \in Invocations :
        q.qres = "fault"
        => /\ q.pc = "done"
           /\ q.resp.status = 500
           /\ q.resp.headers = NoHeaders
           /\ ~q.stored
           /\ q.calls = 1

\* C6 witness: a request whose write faulted has been answered.
C6_Witness == \E q \in Invocations : q.qres = "fault" /\ q.pc = "done" /\ q.resp.status = 500

ConfigMissing == BUCKET = None \/ QUOTA_TABLE = None

\* C9: with the bucket name or the quota table name missing no request gets
\* past the start: none is processed, with or without quota, and no counter is
\* written.
C9_FailFastOnMissingConfig ==
    ConfigMissing
    => /\ \A q \in Invocations : q.qres \notin {"ok", "skipped"}
       /\ DOMAIN table = {}

\* C10: the stored count of a key is the number of requests that passed the
\* quota check on it, whatever response their processing ended in.
C10_IncrementNeverUndone ==
    \A key \in Keys : Cnt(key) = Count(Answered(key, "ok"))

\* C10 witness: a limit of at least 1 is used up by requests that all ended in
\* an error response, and a further request is turned away.
C10_Witness ==
    \E key \in Keys :
        /\ QUOTA_LIMIT >= 1
        /\ Cnt(key) = QUOTA_LIMIT
        /\ \A q \in Answered(key, "ok") : q.resp.status >= 400
        /\ \E q \in Answered(key, "ok") : q.resp.status = 400
        /\ \E q \in Answered(key, "ok") : q.resp.status = 500 /\ BUCKET # None
        /\ Answered(key, "exceeded") # {}

(***************************************************************************)
(* Text consolidation                                                      *)
(*                                                                         *)
(* A text is a sequence of one-character strings.  A detection is          *)
(* [Type, DetectedText, Confidence, BoundingBox]; a confidence is the      *)
(* fraction <<numerator, denominator>>; a box is [Left, Top, Width,        *)
(* Height] in hundredths of the image side.                                *)
(***************************************************************************)
Whitespace == {" ", "\t"}

\* str.lower on the characters the model uses.
Lower(c) == CASE c = "A" -> "a" [] c = "B" -> "b" [] OTHER -> c

RECURSIVE LStrip(_)
LStrip(s) == IF s # <<>> /\ Head(s) \in Whitespace THEN LStrip(Tail(s)) ELSE s

Reverse(s) == [i \in 1..Len(s) |-> s[Len(s) + 1 - i]]

\* re.sub(r"\s+", " ", s): every run of whitespace becomes one space.
RECURSIVE CollapseWhitespace(_)
CollapseWhitespace(s) ==
    IF s = <<>> THEN <<>>
    ELSE IF Head(s) \in Whitespace THEN <<" ">> \o CollapseWhitespace(LStrip(s))
    ELSE <<Head(s)>> \o CollapseWhitespace(Tail(s))

\* _norm_text: collapse whitespace, strip, lowercase.
norm_text(s) ==
    LET stripped == Reverse(LStrip(Reverse(LStrip(CollapseWhitespace(s)))))
    IN [i \in 1..Len(stripped) |-> Lower(stripped[i])]

\* The 1e-9 of the denominator, in the model's area unit of 1e-4: 1/EpsInv.
EpsInv == 100000

\* _iou: the fraction <<numerator, denominator>>, <<0, 1>> for an empty intersection.
iou(bb1, bb2) ==
    LET x1 == bb1.Left   y1 == bb1.Top   x2 == x1 + bb1.Width   y2 == y1 + bb1.Height
        a1 == bb2.Left   b1 == bb2.Top   a2 == a1 + bb2.Width   b2 == b1 + bb2.Height
        iw == Max(0, Min(x2, a2) - Max(x1, a1))
        ih == Max(0, Min(y2, b2) - Max(y1, b1))
        inter == iw * ih
        area1 == (x2 - x1) * (y2 - y1)
        area2 == (a2 - a1) * (b2 - b1)
    IN IF inter = 0 THEN <<0, 1>>
       ELSE <<inter * EpsInv, (area1 + area2 - inter) * EpsInv + 1>>

\* f > 0.5 for a fraction f with a positive denominator.
GreaterThanHalf(f) == 2 * f[1] > f[2]

\* c >= m for a fraction c with a positive denominator.
AtLeast(c, m) == c[1] >= m * c[2]

\* The test of line 234 against one accepted line.
SameLine(txtn, bb, u) ==
    norm_text(u.DetectedText) = txtn /\ GreaterThanHalf(iou(bb, u.Box))

\* Lines 232-236: is the candidate a duplicate of an accepted line?
IsDupOfLastOnly(txtn, bb, uq) == uq # <<>> /\ SameLine(txtn, bb, uq[Len(uq)])
IsDup(txtn, bb, uq) == \E i \in 1..Len(uq) : SameLine(txtn, bb, uq[i])

\* Lines 238-242: the entry appended to uniq.
UniqEntry(l) ==
    [DetectedText |-> l.DetectedText, Confidence |-> l.Confidence, Box |-> l.BoundingBox]

\* Twice the vertical centre, Top + Height/2, of a box: in two-hundredths.
CenterY2(bb) == 2 * bb.Top + bb.Height

\* round(center_y * 100): Python rounds halves to the even neighbour.
RoundCenter(bb) ==
    LET c == CenterY2(bb)
        f == c \div 2
    IN IF c % 2 = 0 THEN f ELSE IF f % 2 = 0 THEN f ELSE f + 1

\* band = 0.04, in two-hundredths.
Band2 == 8

\* int(center_y / band)
Row(bb) == CenterY2(bb) \div Band2

\* The two sort keys of _group_words_into_lines.
KeyRowLeft(w) == <<RoundCenter(w.BoundingBox), w.BoundingBox.Left>>
KeyLeft(w) == <<w.BoundingBox.Left, 0>>
KeyLess(k1, k2) == k1[1] < k2[1] \/ (k1[1] = k2[1] /\ k1[2] < k2[2])

\* list.sort(key=...): a stable sort; equal keys keep the order they came in.
\* key is the function that gives each element of the list its sort key.
RECURSIVE InsertStable(_, _, _)
InsertStable(x, t, key) ==
    IF t = <<>> THEN <<x>>
    ELSE IF KeyLess(key[x], key[Head(t)]) THEN <<x>> \o t
    ELSE <<Head(t)>> \o InsertStable(x, Tail(t), key)

RECURSIVE StableSort(_, _)
StableSort(s, key) ==
    IF s = <<>> THEN <<>>
    ELSE InsertStable(s[Len(s)], StableSort(SubSeq(s, 1, Len(s) - 1), key), key)

Elements(s) == {s[i] : i \in 1..Len(s)}

RECURSIVE Sum(_)
Sum(s) == IF s = <<>> THEN 0 ELSE Head(s) + Sum(Tail(s))

\* " ".join(texts)
RECURSIVE Join(_)
Join(ts) ==
    IF ts = <<>> THEN <<>>
    ELSE IF Len(ts) = 1 THEN ts[1]
    ELSE ts[1] \o <<" ">> \o Join(Tail(ts))

SetMin(S) == CHOOSE x \in S : \A y \in S : x <= y
SetMax(S) == CHOOSE x \in S : \A y \in S : x >= y

RECURSIVE Ascending(_)
Ascending(S) == IF S = {} THEN <<>> ELSE <<SetMin(S)>> \o Ascending(S \ {SetMin(S)})

\* Lines 173-186: the line built from the words of one row.
LineOfRow(rowWords) ==
    LET ws == StableSort(rowWords, [w \in Elements(rowWords) |-> KeyLeft(w)])
        I == 1..Len(ws)
        lefts == {ws[i].BoundingBox.Left : i \in I}
        tops == {ws[i].BoundingBox.Top : i \in I}
        rights == {ws[i].BoundingBox.Left + ws[i].BoundingBox.Width : i \in I}
        bots == {ws[i].BoundingBox.Top + ws[i].BoundingBox.Height : i \in I}
    IN [Type |-> "LINE",
        DetectedText |-> Join([i \in I |-> ws[i].DetectedText]),
        Confidence |-> <<Sum([i \in I |-> ws[i].Confidence[1]]), Max(1, Len(ws))>>,
        BoundingBox |-> [Left |-> SetMin(lefts), Top |-> SetMin(tops),
                         Width |-> SetMax(rights) - SetMin(lefts),
                         Height |-> SetMax(bots) - SetMin(tops)]]

\* _group_words_into_lines
GroupWordsIntoLines(ws) ==
    IF ws = <<>> THEN <<>>
    ELSE LET sorted == StableSort(ws, [w \in Elements(ws) |-> KeyRowLeft(w)])
             rows == Ascending({Row(sorted[i].BoundingBox) : i \in 1..Len(sorted)})
             InRow(r, w) == Row(w.BoundingBox) = r
         IN [n \in 1..Len(rows) |->
                LineOfRow(SelectSeq(sorted, LAMBDA w : InRow(rows[n], w)))]

IsLine(d) == d.Type = "LINE" /\ AtLeast(d.Confidence, min_conf)
IsWord(d) == d.Type = "WORD" /\ AtLeast(d.Confidence, min_conf)

\* Lines 199-208: the grouped lines, rebuilt without their Type.
Built(ls) ==
    [i \in 1..Len(ls) |-> [DetectedText |-> ls[i].DetectedText,
                           Confidence |-> ls[i].Confidence,
                           BoundingBox |-> ls[i].BoundingBox]]

\* Lines 194-208: the candidate lines of a response.  Of a line the loop reads
\* DetectedText, Confidence and the bounding box only, so the lines the service
\* gave are kept in the same shape as the built ones.
CandidateLines(ds) ==
    LET direct == SelectSeq(ds, IsLine)
    IN IF direct # <<>> THEN Built(direct)
       ELSE Built(GroupWordsIntoLines(SelectSeq(ds, IsWord)))

Box(l, t, w, h) == [Left |-> l, Top |-> t, Width |-> w, Height |-> h]
Det(type, text, conf, bb) ==
    [Type |-> type, DetectedText |-> text, Confidence |-> <<conf, 1>>, BoundingBox |-> bb]

\* The detections a response is drawn from: three overlapping boxes (IoU 0.6
\* between neighbours, 1/3 between the outer two) under texts that are equal,
\* equal after normalisation, or different; a line below min_conf; words in one
\* row, in another row, starting at the same Left with the same centre, and
\* below min_conf.
Pool ==
    { Det("LINE", <<"A", " ", "b">>, 90, Box(0, 0, 4, 2)),
      Det("LINE", <<"a", "\t", " ", "b", " ">>, 90, Box(1, 0, 4, 2)),
      Det("LINE", <<"a", " ", "b">>, 90, Box(2, 0, 4, 2)),
      Det("LINE", <<"a", "b">>, 90, Box(0, 0, 4, 2)),
      Det("LINE", <<"a", " ", "b">>, 40, Box(0, 0, 4, 2)),
      Det("WORD", <<"H", "i">>, 90, Box(0, 10, 10, 5)),
      Det("WORD", <<"y", "o">>, 80, Box(12, 11, 10, 5)),
      Det("WORD", <<"x">>, 90, Box(0, 50, 10, 5)),
      Det("WORD", <<"a", "b">>, 90, Box(0, 10, 20, 5)),
      Det("WORD", <<"l", "o">>, 40, Box(30, 10, 10, 5)) }

SeqsUpTo(S, n) == UNION {[1..k -> S] : k \in 0..n}

\* A detect_text response and a min_conf; the quota side stays as loaded.
InitText ==
    /\ BUCKET = "images" /\ QUOTA_TABLE = "quota" /\ QUOTA_LIMIT = MaxLimit
    /\ FEATURE_QUOTA_ENABLED = TRUE
    /\ now = 0
    /\ table = [k \in {} |-> [cnt |-> 0, expires |-> 0]]
    /\ req = EmptyBag
    /\ min_conf \in {0, MIN_CONF}
    /\ dets \in SeqsUpTo(Pool, MaxDets)
    /\ tpc = "start"
    /\ words = <<>> /\ lines = <<>> /\ li = 1 /\ uniq = <<>>

\* Lines 191-210: filter the lines, fall back to grouping the words, start the loop.
DetectText ==
    /\ tpc = "start"
    /\ words' = IF SelectSeq(dets, IsLine) # <<>> THEN <<>> ELSE SelectSeq(dets, IsWord)
    /\ lines' = CandidateLines(dets)
    /\ li' = 1
    /\ uniq' = <<>>
    /\ tpc' = "dedup"
    /\ UNCHANGED <<envVars, quotaVars, min_conf, dets>>

\* One round of the loop of lines 228-242.
DedupStep ==
    /\ tpc = "dedup"
    /\ li <= Len(lines)
    /\ LET l == lines[li]
           txtn == norm_text(l.DetectedText)
       IN uniq' = IF IsDup(txtn, l.BoundingBox, uniq) THEN uniq
                  ELSE Append(uniq, UniqEntry(l))
    /\ li' = li + 1
    /\ UNCHANGED <<envVars, quotaVars, min_conf, dets, tpc, words, lines>>

\* return uniq
DedupReturn ==
    /\ tpc = "dedup"
    /\ li > Len(lines)
    /\ tpc' = "done"
    /\ UNCHANGED <<envVars, quotaVars, min_conf, dets, words, lines, li, uniq>>

NextText == DetectText \/ DedupStep \/ DedupReturn

SpecText == InitText /\ [][NextText]_vars

(***************************************************************************)
(* Properties of the text consolidation                                    *)
(***************************************************************************)
\* The duplicate predicate on two candidate lines.
Duplicates(a, b) ==
    /\ norm_text(a.DetectedText) = norm_text(b.DetectedText)
    /\ GreaterThanHalf(iou(a.BoundingBox, b.BoundingBox))

\* The candidates at the positions S, in input order, as output entries.
Pick(ls, S) ==
    LET idx == Ascending(S) IN [j \in 1..Len(idx) |-> UniqEntry(ls[idx[j]])]

\* C7: the output is the input restricted to a set S of positions, in input
\* order; no two lines at positions of S are duplicates; every line at a
\* position outside S is a duplicate of a line at an earlier position of S.
C7_DedupOutput ==
    tpc = "done"
    => \E S \in SUBSET (1..Len(lines)) :
          /\ uniq = Pick(lines, S)
          /\ \A i, j \in S : i # j => ~Duplicates(lines[i], lines[j])
          /\ \A i \in (1..Len(lines)) \ S :
                \E j \in S : j < i /\ Duplicates(lines[i], lines[j])

\* C7 witness: a list of three candidates of which one was discarded, the last
\* kept although it duplicates the discarded one.
C7_Witness ==
    /\ tpc = "done"
    /\ Len(lines) = 3 /\ Len(uniq) = 2
    /\ Duplicates(lines[2], lines[1])
    /\ Duplicates(lines[3], lines[2])
    /\ ~Duplicates(lines[3], lines[1])

Orders(s) ==
    {p \in [1..Len(s) -> 1..Len(s)] : \A i, j \in 1..Len(s) : i # j => p[i] # p[j]}

\* Line order, line text and enclosing box of a list of lines.
Content(ls) ==
    [i \in 1..Len(ls) |-> <<ls[i].DetectedText, ls[i].BoundingBox>>]

\* C8: the lines grouped from the words are the same for every order in which
\* the words are given.
C8_GroupingOrderIndependent ==
    (tpc # "start" /\ words # <<>>)
    => \A p \in Orders(words) :
          Content(GroupWordsIntoLines([i \in 1..Len(words) |-> words[p[i]]])) = Content(lines)

====
